---- MODULE Spec2Model ----
(***************************************************************************)
(* BioTek EL406 plate washer backend: the session (transport handle,       *)
(* command lock, batch-active flag), the batch() context manager, the      *)
(* start and cleanup command sequences, and the step / action commands     *)
(* issued by concurrent asyncio callers on one session.                    *)
(***************************************************************************)
EXTENDS Integers, Sequences, FiniteSets, TLC

(***************************************************************************)
(* Bounds of the model.                                                    *)
(***************************************************************************)
NumTasks == 2
MaxOps == 3
MaxDepth == 2
NumPreBatch == 1
TimeoutPolls == 1

(***************************************************************************)
(* Command codes (constants.py).                                           *)
(***************************************************************************)
TEST_COMM_COMMAND == 115
INIT_STATE_COMMAND == 160
PAUSE_COMMAND == 138
START_STEP_COMMAND == 141
END_OF_BATCH_COMMAND == 140
RESET_COMMAND == 112
HOME_VERIFY_MOTORS_COMMAND == 200
VACUUM_PUMP_CONTROL_COMMAND == 299
SHAKE_SOAK_COMMAND == 163
MANIFOLD_WASH_COMMAND == 164
GET_WASHER_MANIFOLD_COMMAND == 216
\* a device-specific pre-batch initialisation frame of start_batch
PRE_BATCH_COMMAND == 0

(***************************************************************************)
(* Parameter ranges (constants.py, helpers.py).                            *)
(***************************************************************************)
VALID_BUFFERS == {"A", "B", "C", "D"}
MIN_FLOW_RATE == 1
MAX_FLOW_RATE == 9
MIN_CYCLES == 1
MAX_CYCLES == 250
MIN_TRAVEL_RATE == 1
MAX_TRAVEL_RATE == 9

Tasks == 1..NumTasks

VARIABLES
  io,        \* "none" | "open": self.io is None / an open transport handle
  lock,      \* 0, or the task holding self._command_lock
  in_batch,  \* self._in_batch
  sent,      \* per caller: command codes of the frames written by its
             \* caller-level call (or batch exit) in progress
  task,      \* per caller: position, open batch scopes, pending exception
  last,      \* the caller-level call or batch scope that ended in the step
             \* just taken, if any
  ops,       \* number of caller-level calls begun so far
  marker,    \* the batch marker written to the transport last: "start"
             \* (START_STEP), "end" (end-of-batch), "none" before the first
  calc       \* the frame or payload builder applied last, its arguments and
             \* what it returned (session-independent pure functions)

session == <<io, lock, in_batch, sent, task, last, ops, marker>>

vars == <<session, calc>>

\* an optional argument left out (None); every value given is 0 or more
None == -1

\* EL406PlateType values (setup_tests.py 49-61, 418)
PLATE_1536_WELL == 0
PLATE_384_WELL == 1
PLATE_384_PCR == 2
PLATE_96_WELL == 4
PLATE_1536_FLANGE == 14

PlateTypes ==
  {PLATE_1536_WELL, PLATE_384_WELL, PLATE_384_PCR, PLATE_96_WELL,
   PLATE_1536_FLANGE}

\* _build_wash_composite_command lines 1019-1058: the arguments and their
\* defaults; volumes in whole uL
WashDefaults(plate_type) ==
  [plate_type |-> plate_type, cycles |-> 3, buffer |-> "A",
   dispense_volume |-> None, dispense_flow_rate |-> 7,
   dispense_x |-> 0, dispense_y |-> 0, dispense_z |-> None,
   aspirate_travel_rate |-> 3, aspirate_z |-> None,
   pre_dispense_flow_rate |-> 9, aspirate_delay_ms |-> 0,
   aspirate_x |-> 0, aspirate_y |-> 0,
   final_aspirate |-> TRUE, final_aspirate_z |-> None,
   final_aspirate_x |-> 0, final_aspirate_y |-> 0,
   final_aspirate_delay_ms |-> 0,
   pre_dispense_volume |-> 0, vacuum_delay_volume |-> 0,
   soak_duration |-> 0, shake_duration |-> 0, shake_intensity |-> "Medium",
   secondary_aspirate |-> FALSE, secondary_z |-> None,
   secondary_x |-> 0, secondary_y |-> 0,
   final_secondary_aspirate |-> FALSE, final_secondary_z |-> None,
   final_secondary_x |-> 0, final_secondary_y |-> 0,
   bottom_wash |-> FALSE, bottom_wash_volume |-> 0,
   bottom_wash_flow_rate |-> 5,
   pre_dispense_between_cycles_volume |-> 0,
   pre_dispense_between_cycles_flow_rate |-> 9,
   wash_format |-> "Plate", sector_mask |-> 15, move_home_first |-> FALSE]

\* no builder applied
NoCalc ==
  [fn |-> "none", command |-> 0, data |-> <<>>,
   args |-> WashDefaults(PLATE_96_WELL), is_none |-> FALSE, n |-> 0,
   outcome |-> "none", out |-> <<>>]

(***************************************************************************)
(* Command sequences.                                                      *)
(***************************************************************************)
\* start_batch: pre-batch initialisation frames, then the START_STEP marker
StartSeq == [i \in 1..(NumPreBatch + 1) |->
               IF i <= NumPreBatch THEN PRE_BATCH_COMMAND ELSE START_STEP_COMMAND]

\* the motors are homed before the pump is switched off
CleanupSeqHomeFirst == <<HOME_VERIFY_MOTORS_COMMAND, VACUUM_PUMP_CONTROL_COMMAND,
                         END_OF_BATCH_COMMAND>>

\* cleanup_after_protocol: set_vacuum_pump(False), home_motors(HOME_XYZ),
\* perform_end_of_batch(), each awaited before the next
CleanupSeq == <<VACUUM_PUMP_CONTROL_COMMAND, HOME_VERIFY_MOTORS_COMMAND,
                END_OF_BATCH_COMMAND>>

\* setup(): _test_communication() (test-comm + init-state), then reset()
\* unless skip_reset
SetupSeq(skip_reset) ==
  IF skip_reset THEN <<TEST_COMM_COMMAND, INIT_STATE_COMMAND>>
  ELSE <<TEST_COMM_COMMAND, INIT_STATE_COMMAND, RESET_COMMAND>>

(***************************************************************************)
(* Per-task records.                                                       *)
(***************************************************************************)
\* the parameters of a call that has none that are modelled
NoArgs == [cycles |-> 1, buffer |-> "A", dispense_flow_rate |-> 7,
           aspirate_travel_rate |-> 3]

NoCall == [kind |-> "none", flagBefore |-> FALSE, args |-> NoArgs]

\* what ended: kind = the call ("enter" for the entry into a caller-managed
\* batch scope, "batch" for its exit), owner = an outermost batch scope exited
\* with it, nested = batch() was entered again inside that scope, outcome =
\* "ok" or the exception passed on, args = the call's arguments, cause = the
\* transport operation whose failure the exception wraps, ioBefore = the
\* handle when the call began, tops = the operations the call performed on
\* the transport object, the flag when it began and ended, whether
\* start_batch had returned, the exception the scope's body raised, "ok" or the exception of
\* its cleanup, the frames the call (or the exit of a caller-managed scope)
\* wrote, those written from the start of the scope's exit, the
\* START_STEP / end-of-batch frames written while the scope was open, and
\* the commands of cleanup_after_protocol() that were called (attempts)
NoEv == [task |-> 0, kind |-> "none", owner |-> FALSE, nested |-> FALSE,
         outcome |-> "none", args |-> NoArgs, cause |-> "none",
         ioBefore |-> "none", tops |-> <<>>,
         flagBefore |-> FALSE, flagAfter |-> FALSE, startOk |-> FALSE,
         bodyExc |-> "none", cleanup |-> "none", frames |-> <<>>,
         exitFrames |-> <<>>, starts |-> 0, ends |-> 0, attempts |-> 0]

\* mid = length of the log when the exit of the batch scope began;
\* starts / ends = START_STEP / end-of-batch frames the caller has written
\* since it entered the batch scope that set the flag
InitTask == [pc |-> "body", role |-> "none", idx |-> 0, polls |-> 0,
             skip |-> FALSE, stack |-> <<>>, exc |-> "none", call |-> NoCall,
             mid |-> 0, starts |-> 0, ends |-> 0]

\* one batch() scope: owner = this scope flipped the flag (lines 188-196),
\* auto = opened by a step command's own "async with self.batch(...)"
NewScope(owner, auto) ==
  [owner |-> owner, auto |-> auto, nested |-> FALSE, startOk |-> FALSE,
   bodyExc |-> "none"]

\* batch() was entered again by the caller that holds the outermost scope
MarkNested(stk) ==
  [i \in 1..Len(stk) |-> IF stk[i].owner THEN [stk[i] EXCEPT !.nested = TRUE]
                          ELSE stk[i]]

HasOwner(stk) == \E i \in 1..Len(stk) : stk[i].owner

Top(stk) == stk[Len(stk)]

Pop(stk) == SubSeq(stk, 1, Len(stk) - 1)

SetTop(stk, sc) == [stk EXCEPT ![Len(stk)] = sc]

\* the command a task in role r at index i sends
CmdOf(T) ==
  CASE T.role = "start" -> StartSeq[T.idx]
    [] T.role = "cleanup" -> CleanupSeq[T.idx]
    [] T.role = "setup" -> SetupSeq(T.skip)[T.idx]
    [] T.role = "step" -> MANIFOLD_WASH_COMMAND
    [] T.role = "ustep" -> SHAKE_SOAK_COMMAND
    [] T.role = "query" -> GET_WASHER_MANIFOLD_COMMAND
    [] OTHER -> PAUSE_COMMAND

\* the frames of log s after its first n
After(s, n) == SubSeq(s, n + 1, Len(s))

(***************************************************************************)
(* Control flow of one caller: pure functions from the task record T, the  *)
(* flag f and the caller's frame log s to the new record, the new flag and *)
(* what ended (t, f, ev).                                                  *)
(***************************************************************************)
Issue(T, r, i) == [T EXCEPT !.pc = "send", !.role = r, !.idx = i, !.polls = 0]

ToBody(T) ==
  [T EXCEPT !.pc = "body", !.role = "none", !.idx = 0, !.polls = 0, !.mid = 0,
            !.skip = FALSE]

Res(T, f, ev) == [t |-> T, f |-> f, ev |-> ev]

\* the caller-level call in progress returns or raises
CallEv(T, f, s, outcome) ==
  [NoEv EXCEPT !.kind = T.call.kind, !.outcome = outcome,
               !.args = T.call.args,
               !.flagBefore = T.call.flagBefore, !.flagAfter = f,
               !.frames = s]

EndCall(T) == [T EXCEPT !.call = NoCall]

RECURSIVE Unwind(_)
\* the exception leaves every open scope and no finally block runs
UnwindAll(stk) == <<>>

\* batch() lines 184-186 and 191-196: an exception thrown into a
\* pass-through scope leaves it at once, nothing is sent and the flag is
\* untouched; it stops at the scope whose finally block has to run
Unwind(stk) ==
  IF stk = <<>> THEN stk
  ELSE IF Top(stk).owner THEN stk
  ELSE Unwind(Pop(stk))

\* an exception e leaves the current call and travels up the open scopes:
\* pass-through scopes are left at once, the outermost (owner) scope runs
\* its finally block (lines 192-194), an empty stack means the caller has it
Raise(T, f, s, e, ev) ==
  LET stk == Unwind(T.stack)
      out == IF ev.kind # "none" THEN ev
             ELSE [NoEv EXCEPT !.kind = IF T.call.kind # "none" THEN T.call.kind
                                        ELSE "batch",
                               !.owner = HasOwner(T.stack), !.outcome = e,
                               !.args = T.call.args,
                               !.flagBefore = IF T.call.kind # "none"
                                                THEN T.call.flagBefore ELSE f,
                               !.flagAfter = f,
                               !.bodyExc = IF HasOwner(T.stack) THEN e ELSE "none",
                               !.frames = s]
  IN
  IF stk = <<>>
    THEN Res(ToBody(EndCall([T EXCEPT !.stack = <<>>, !.exc = "none"])), f, out)
    ELSE Res(Issue([T EXCEPT
                      !.stack = SetTop(stk, [Top(stk) EXCEPT !.bodyExc = e]),
                      !.exc = e, !.mid = IF ev.kind = "none" THEN Len(s) ELSE 0],
                   "cleanup", 1),
             f, ev)

\* the flag is reset only when cleanup_after_protocol() returned
ResetFlagIfCleanupOk(f, pending, outcome) ==
  IF outcome = "ok" THEN FALSE ELSE f

\* the flag is reset only when the with-block ended without an exception
ResetFlagUnlessRaised(f, pending, outcome) ==
  IF pending = "none" THEN FALSE ELSE f

\* batch() lines 192-196: the flag after the finally blocks, given the flag
\* before, the exception pending from the try block and the outcome of
\* cleanup_after_protocol(); line 196 sits in the inner finally and runs
\* every time
ResetFlag(f, pending, outcome) == FALSE

\* batch() lines 192-196 and what follows the context manager: the cleanup
\* has returned or raised, the flag is reset, the scope is left; a cleanup
\* error replaces the pending exception
CleanupDone(T, f, s, outcome) ==
  LET sc == Top(T.stack)
      e == IF outcome # "ok" THEN outcome ELSE T.exc
      g == ResetFlag(f, T.exc, outcome)
      ev == [NoEv EXCEPT !.kind = IF T.call.kind # "none" THEN T.call.kind
                                  ELSE "batch",
                         !.owner = sc.owner, !.nested = sc.nested,
                         !.args = T.call.args,
                         !.outcome = IF e = "none" THEN "ok" ELSE e,
                         !.flagBefore = IF T.call.kind # "none"
                                          THEN T.call.flagBefore ELSE f,
                         !.flagAfter = g,
                         !.startOk = sc.startOk, !.bodyExc = sc.bodyExc,
                         !.cleanup = outcome, !.frames = s,
                         !.exitFrames = After(s, T.mid),
                         !.starts = T.starts, !.ends = T.ends,
                         !.attempts = T.idx]
      T1 == EndCall([T EXCEPT !.stack = Pop(T.stack), !.exc = "none"])
  IN IF e = "none" THEN Res(ToBody(T1), g, ev)
     ELSE Raise(T1, g, s, e, ev)

\* every entry starts a batch, whatever the flag
BatchEnterNoReentry(T, f, s, auto) ==
  Res(Issue([T EXCEPT !.stack = Append(MarkNested(T.stack), NewScope(TRUE, auto)),
                      !.starts = IF HasOwner(T.stack) THEN @ ELSE 0,
                      !.ends = IF HasOwner(T.stack) THEN @ ELSE 0],
            "start", 1),
      TRUE, NoEv)

\* batch() lines 184-190, entered with the flag f
BatchEnter(T, f, s, auto) ==
  IF f
    THEN \* lines 184-186: no-op pass-through; the body runs at once
         LET T1 == [T EXCEPT !.stack = Append(MarkNested(T.stack),
                                              NewScope(FALSE, auto))]
         IN IF auto THEN Res(Issue(T1, "step", 1), f, NoEv)
            ELSE Res(ToBody(EndCall(T1)), f, CallEv(T, f, s, "ok"))
    ELSE \* lines 188-190: flag set, then start_batch
         Res(Issue([T EXCEPT !.stack = Append(T.stack, NewScope(TRUE, auto)),
                             !.starts = IF HasOwner(T.stack) THEN @ ELSE 0,
                             !.ends = IF HasOwner(T.stack) THEN @ ELSE 0],
                   "start", 1),
             TRUE, NoEv)

\* every exit runs the cleanup, whether or not the scope set the flag
BatchExitAlwaysCleanup(T, f, s) ==
  Res(Issue([T EXCEPT !.exc = "none", !.mid = Len(s)], "cleanup", 1), f, NoEv)

\* batch() left without an exception: the owner runs the finally block, a
\* pass-through scope just returns (line 186)
BatchExit(T, f, s) ==
  IF Top(T.stack).owner
    THEN Res(Issue([T EXCEPT !.exc = "none", !.mid = Len(s)], "cleanup", 1), f, NoEv)
    ELSE LET T1 == [T EXCEPT !.stack = Pop(T.stack)]
         IN IF Top(T.stack).auto
              THEN Res(ToBody(EndCall(T1)), f, CallEv(T, f, s, "ok"))
              ELSE Res(ToBody(T1), f,
                       [NoEv EXCEPT !.kind = "batch", !.outcome = "ok",
                                    !.flagBefore = f, !.flagAfter = f,
                                    !.frames = s])

\* the command in flight was acknowledged
OnOk(T, f, s) ==
  CASE T.role = "start" ->
         IF T.idx < Len(StartSeq)
           THEN Res(Issue(T, "start", T.idx + 1), f, NoEv)
           ELSE LET T1 == [T EXCEPT !.stack =
                             SetTop(T.stack, [Top(T.stack) EXCEPT !.startOk = TRUE])]
                IN IF Top(T.stack).auto THEN Res(Issue(T1, "step", 1), f, NoEv)
                   ELSE Res(ToBody(EndCall(T1)), f, CallEv(T, f, s, "ok"))
    [] T.role = "step" -> BatchExit(T, f, s)
    [] T.role = "cleanup" ->
         IF T.idx < Len(CleanupSeq)
           THEN Res(Issue(T, "cleanup", T.idx + 1), f, NoEv)
           ELSE CleanupDone(T, f, s, "ok")
    [] T.role = "setup" ->
         IF T.idx < Len(SetupSeq(T.skip))
           THEN Res(Issue(T, "setup", T.idx + 1), f, NoEv)
           ELSE Res(ToBody(EndCall(T)), f, CallEv(T, f, s, "ok"))
    [] OTHER -> Res(ToBody(EndCall(T)), f, CallEv(T, f, s, "ok"))

\* the command in flight raised e (timeout, or no open transport)
OnFail(T, f, s, e) ==
  CASE T.role = "start" ->
         \* raised inside the try of line 189: the finally runs the cleanup
         Res(Issue([T EXCEPT !.exc = e, !.mid = Len(s)], "cleanup", 1), f, NoEv)
    [] T.role = "step" ->
         IF Top(T.stack).owner
           THEN Raise(T, f, s, e, NoEv)
           ELSE Raise(EndCall([T EXCEPT !.stack = Pop(T.stack)]), f, s, e,
                      CallEv(T, f, s, e))
    [] T.role = "cleanup" -> CleanupDone(T, f, s, e)
    [] OTHER -> Raise(EndCall(T), f, s, e, CallEv(T, f, s, e))

(***************************************************************************)
(* Initial state: the backend after __init__ (backend.py 72-77).           *)
(***************************************************************************)
Init ==
  /\ io = "none"
  /\ lock = 0
  /\ in_batch = FALSE
  /\ sent = [t \in Tasks |-> <<>>]
  /\ task = [t \in Tasks |-> InitTask]
  /\ last = NoEv
  /\ ops = 0
  /\ marker = "none"
  /\ calc = NoCalc

\* the caller's log restarts when its call or batch exit has ended, its
\* frame counts when it has left its outermost scope
Apply(t, r) ==
  /\ task' = [task EXCEPT ![t] =
                IF r.t.pc = "body" /\ r.t.stack = <<>>
                  THEN [r.t EXCEPT !.starts = 0, !.ends = 0] ELSE r.t]
  /\ in_batch' = r.f
  /\ last' = IF r.ev.kind = "none" THEN NoEv ELSE [r.ev EXCEPT !.task = t]
  /\ sent' = [sent EXCEPT ![t] =
                IF r.t.pc = "body" \/ r.ev.kind # "none" THEN <<>> ELSE @]
  /\ marker' = marker

AtBody(t) == task[t].pc = "body"

BeginCall(T, kind) ==
  [T EXCEPT !.call = [kind |-> kind, flagBefore |-> in_batch, args |-> NoArgs]]

(***************************************************************************)
(* Session life cycle.                                                     *)
(***************************************************************************)
\* setup() lines 113-123: the line configuration, in order
ConfigSteps == <<"set_baudrate", "set_line_property", "set_flowctrl",
                 "set_rts", "set_dtr">>

\* the handle is kept and the transport left as it is
ConfigFailureLeak(done) ==
  [io |-> "open", tops |-> done, outcome |-> "communication"]

\* setup() lines 124-132, after the transport operations done: the transport
\* is stopped, the handle dropped, EL406CommunicationError raised
ConfigFailure(done) ==
  [io |-> "none", tops |-> Append(done, "stop"), outcome |-> "communication"]

\* setup(): a fresh lock (line 102), the transport opened (107-109) and
\* configured (113-132), then the handshake and the optional reset (136-149).
\* Called on a closed session with no command in flight; failAt = the
\* configuration step that raises, 0 for none.
Setup(t) ==
  /\ UNCHANGED calc
  /\ AtBody(t)
  /\ ops < MaxOps
  /\ io = "none"
  /\ lock = 0
  /\ ops' = ops + 1
  /\ lock' = 0
  /\ \E failAt \in 0..Len(ConfigSteps), skip_reset \in BOOLEAN :
       IF failAt = 0
         THEN /\ io' = "open"
              /\ Apply(t, Res(Issue([BeginCall(task[t], "setup")
                                       EXCEPT !.skip = skip_reset], "setup", 1),
                              in_batch, NoEv))
         ELSE LET r == ConfigFailure(<<"setup">> \o SubSeq(ConfigSteps, 1, failAt))
                  T == BeginCall(task[t], "setup")
              IN /\ io' = r.io
                 /\ Apply(t, Raise(EndCall(T), in_batch, sent[t], r.outcome,
                                   [CallEv(T, in_batch, sent[t], r.outcome)
                                      EXCEPT !.cause = ConfigSteps[failAt],
                                             !.ioBefore = io,
                                             !.tops = r.tops]))

\* the transport is stopped whatever the handle
StopIoAlways(h) == [io |-> "none", tops |-> <<"stop">>]

\* stop() lines 161-163: only an open handle is stopped and dropped
StopIo(h) ==
  IF h # "none" THEN [io |-> "none", tops |-> <<"stop">>]
  ELSE [io |-> h, tops |-> <<>>]

\* stopping the session also ends the batch
StopFlagReset(f) == FALSE

\* stop() lines 160-163 do not assign _in_batch: "Batch cleanup is handled
\* by the batch() context manager, not by stop()"
StopFlag(f) == f

\* stop()
Stop(t) ==
  /\ UNCHANGED calc
  /\ AtBody(t)
  /\ ops < MaxOps
  /\ ops' = ops + 1
  /\ io' = StopIo(io).io
  /\ last' = [NoEv EXCEPT !.task = t, !.kind = "stop", !.outcome = "ok",
                          !.flagBefore = in_batch,
                          !.flagAfter = StopFlag(in_batch),
                          !.ioBefore = io, !.tops = StopIo(io).tops]
  /\ in_batch' = StopFlag(in_batch)
  /\ UNCHANGED <<lock, sent, task, marker>>

(***************************************************************************)
(* Caller-level operations.                                                *)
(***************************************************************************)
\* async with backend.batch(plate): entered by caller code
EnterBatch(t) ==
  /\ UNCHANGED calc
  /\ AtBody(t)
  /\ ops < MaxOps
  /\ Len(task[t].stack) < MaxDepth
  /\ ops' = ops + 1
  /\ Apply(t, BatchEnter(BeginCall(task[t], "enter"), in_batch, sent[t], FALSE))
  /\ UNCHANGED <<io, lock>>

\* the with-block of a caller-managed batch() ends without an exception
ExitBatch(t) ==
  /\ UNCHANGED calc
  /\ AtBody(t)
  /\ task[t].stack # <<>>
  /\ Apply(t, BatchExit(task[t], in_batch, sent[t]))
  /\ UNCHANGED <<io, lock, ops>>

\* caller code inside a batch() body raises (e.g. ValueError)
BodyRaise(t) ==
  /\ UNCHANGED calc
  /\ AtBody(t)
  /\ task[t].stack # <<>>
  /\ Apply(t, Raise(task[t], in_batch, sent[t], "body", NoEv))
  /\ UNCHANGED <<io, lock, ops>>

\* manifold_wash() arguments tried: the defaults, and each parameter just
\* outside its range
WashInputs ==
  {[NoArgs EXCEPT !.cycles = c] : c \in {MIN_CYCLES - 1, MAX_CYCLES + 1}}
  \cup {[NoArgs EXCEPT !.buffer = b] : b \in {"A", "Z"}}
  \cup {[NoArgs EXCEPT !.dispense_flow_rate = r] :
          r \in {MIN_FLOW_RATE - 1, MAX_FLOW_RATE + 1}}
  \cup {[NoArgs EXCEPT !.aspirate_travel_rate = r] :
          r \in {MIN_TRAVEL_RATE - 1, MAX_TRAVEL_RATE + 1}}

\* nothing is validated
WashParamsUnchecked(a) == TRUE

\* _validate_wash_core_params lines 277-283: validate_cycles,
\* validate_buffer, validate_flow_rate, validate_travel_rate all pass
WashParamsValid(a) ==
  /\ MIN_CYCLES <= a.cycles /\ a.cycles <= MAX_CYCLES
  /\ a.buffer \in VALID_BUFFERS
  /\ MIN_FLOW_RATE <= a.dispense_flow_rate
  /\ a.dispense_flow_rate <= MAX_FLOW_RATE
  /\ MIN_TRAVEL_RATE <= a.aspirate_travel_rate
  /\ a.aspirate_travel_rate <= MAX_TRAVEL_RATE

\* manifold_wash(): the parameters are validated (lines 760-800) and the
\* payload built, a ValueError leaving the call at once; then lines 881-887:
\* async with self.batch(plate_type): await self._send_step_command(...)
ManifoldWash(t) ==
  /\ UNCHANGED calc
  /\ AtBody(t)
  /\ ops < MaxOps
  /\ ops' = ops + 1
  /\ \E a \in WashInputs :
       LET T == [BeginCall(task[t], "manifold_wash") EXCEPT !.call.args = a] IN
       IF WashParamsValid(a)
         THEN Apply(t, BatchEnter(T, in_batch, sent[t], TRUE))
         ELSE Apply(t, Raise(EndCall(T), in_batch, sent[t], "validation",
                             CallEv(T, in_batch, sent[t], "validation")))
  /\ UNCHANGED <<io, lock>>

\* shake() lines 82-84 with valid parameters: the frame is built and passed
\* to _send_step_command directly
Shake(t) ==
  /\ UNCHANGED calc
  /\ AtBody(t)
  /\ ops < MaxOps
  /\ ops' = ops + 1
  /\ Apply(t, Res(Issue(BeginCall(task[t], "shake"), "ustep", 1),
                  in_batch, NoEv))
  /\ UNCHANGED <<io, lock>>

\* the action command opens a batch of its own, as a step command does
PauseBatched(t) ==
  /\ UNCHANGED calc
  /\ AtBody(t)
  /\ ops < MaxOps
  /\ ops' = ops + 1
  /\ Apply(t, BatchEnter(BeginCall(task[t], "pause"), in_batch, sent[t], TRUE))
  /\ UNCHANGED <<io, lock>>

\* pause() lines 74-78: an action command
Pause(t) ==
  /\ UNCHANGED calc
  /\ AtBody(t)
  /\ ops < MaxOps
  /\ ops' = ops + 1
  /\ Apply(t, Res(Issue(BeginCall(task[t], "pause"), "action", 1),
                  in_batch, NoEv))
  /\ UNCHANGED <<io, lock>>

\* get_washer_manifold() line 51: a query, sent by _send_framed_query
GetWasherManifold(t) ==
  /\ UNCHANGED calc
  /\ AtBody(t)
  /\ ops < MaxOps
  /\ ops' = ops + 1
  /\ Apply(t, Res(Issue(BeginCall(task[t], "get_washer_manifold"), "query", 1),
                  in_batch, NoEv))
  /\ UNCHANGED <<io, lock>>

(***************************************************************************)
(* Sending one command: acquire the session lock, write the frame, poll    *)
(* for the ACK/response until the timeout elapses, release the lock.       *)
(***************************************************************************)
\* the handle is not looked at before the write
HandleUnchecked(t) == TRUE

\* the send path's check of self.io: there is a transport to write to
HasHandle(t) == io # "none"

\* no open transport: RuntimeError before anything is written
SendClosed(t) ==
  /\ UNCHANGED calc
  /\ task[t].pc = "send"
  /\ io = "none"
  /\ Apply(t, OnFail(task[t], in_batch, sent[t], "closed"))
  /\ UNCHANGED <<io, lock, ops>>

\* no mutual exclusion: a command never waits for the lock
LockFreeAlways(t) == TRUE

\* async with self._command_lock: entered only while no command holds it
LockFree(t) == lock = 0

\* the batch marker written last, once the frame of command cmd is written
MarkerAfter(m, cmd) ==
  CASE cmd = START_STEP_COMMAND -> "start"
    [] cmd = END_OF_BATCH_COMMAND -> "end"
    [] OTHER -> m

\* the lock is taken and the frame written
Write(t) ==
  /\ UNCHANGED calc
  /\ task[t].pc = "send"
  /\ HasHandle(t)
  /\ LockFree(t)
  /\ lock' = t
  /\ sent' = [sent EXCEPT ![t] = Append(@, CmdOf(task[t]))]
  /\ task' = [task EXCEPT
       ![t].pc = "wait", ![t].polls = 0,
       ![t].starts = @ + IF CmdOf(task[t]) = START_STEP_COMMAND THEN 1 ELSE 0,
       ![t].ends = @ + IF CmdOf(task[t]) = END_OF_BATCH_COMMAND THEN 1 ELSE 0]
  /\ last' = NoEv
  /\ marker' = MarkerAfter(marker, CmdOf(task[t]))
  /\ UNCHANGED <<io, in_batch, ops>>

\* the read loop never gives up
ExpiredNever(T) == FALSE

\* the read loop's deadline: the command's timeout has elapsed
Expired(T) == T.polls >= TimeoutPolls

\* the ACK/response arrives within the timeout
Respond(t) ==
  /\ UNCHANGED calc
  /\ task[t].pc = "wait"
  /\ io = "open"
  /\ ~Expired(task[t])
  /\ lock' = 0
  /\ Apply(t, OnOk(task[t], in_batch, sent[t]))
  /\ UNCHANGED <<io, ops>>

\* get_washer_manifold() lines 55-63: the response arrives within the
\* timeout and its manifold byte is no EL406WasherManifold value: ValueError
RespondUnknownManifold(t) ==
  /\ UNCHANGED calc
  /\ task[t].pc = "wait"
  /\ task[t].role = "query"
  /\ io = "open"
  /\ ~Expired(task[t])
  /\ lock' = 0
  /\ Apply(t, OnFail(task[t], in_batch, sent[t], "unknown_value"))
  /\ UNCHANGED <<io, ops>>

\* one pass of the read loop finds no byte
EmptyPoll(t) ==
  /\ UNCHANGED calc
  /\ task[t].pc = "wait"
  /\ io = "open"
  /\ ~Expired(task[t])
  /\ task' = [task EXCEPT ![t].polls = @ + 1]
  /\ last' = NoEv
  /\ UNCHANGED <<io, lock, in_batch, sent, ops, marker>>

\* the lock stays held when the read times out
KeepLockOnTimeout(t) == lock' = lock

\* the TimeoutError leaves the "async with self._command_lock" block
ReleaseOnTimeout(t) == lock' = 0

\* the transport is closed when a read times out
CloseHandleOnTimeout(t) == io' = "none"

\* the TimeoutError is raised from the read loop; self.io is not touched
KeepHandleOnTimeout(t) == io' = io

\* the timeout has elapsed: TimeoutError, lock released
TimeoutRaise(t) ==
  /\ UNCHANGED calc
  /\ task[t].pc = "wait"
  /\ io = "open"
  /\ Expired(task[t])
  /\ ReleaseOnTimeout(t)
  /\ KeepHandleOnTimeout(t)
  /\ Apply(t, OnFail(task[t], in_batch, sent[t], "timeout"))
  /\ UNCHANGED ops

\* the transport was closed under a command in flight
ReadClosed(t) ==
  /\ UNCHANGED calc
  /\ task[t].pc = "wait"
  /\ io = "none"
  /\ lock' = 0
  /\ Apply(t, OnFail(task[t], in_batch, sent[t], "closed"))
  /\ UNCHANGED <<io, ops>>

Next ==
  \E t \in Tasks :
    \/ Setup(t)
    \/ Stop(t)
    \/ EnterBatch(t)
    \/ ExitBatch(t)
    \/ BodyRaise(t)
    \/ ManifoldWash(t)
    \/ Shake(t)
    \/ Pause(t)
    \/ GetWasherManifold(t)
    \/ SendClosed(t)
    \/ Write(t)
    \/ Respond(t)
    \/ RespondUnknownManifold(t)
    \/ EmptyPoll(t)
    \/ TimeoutRaise(t)
    \/ ReadClosed(t)

Spec == Init /\ [][Next]_vars

\* a command in flight keeps polling and its clock keeps running
InFlight(t) ==
  \/ Respond(t) \/ RespondUnknownManifold(t) \/ EmptyPoll(t)
  \/ TimeoutRaise(t) \/ ReadClosed(t)

FairSpec == Spec /\ \A t \in Tasks : WF_vars(InFlight(t))

TypeOK ==
  /\ io \in {"none", "open"}
  /\ lock \in 0..NumTasks
  /\ in_batch \in BOOLEAN
  /\ ops \in 0..MaxOps
  /\ marker \in {"none", "start", "end"}
  /\ \A t \in Tasks : task[t].pc \in {"body", "send", "wait"}
  /\ calc.fn \in {"none", "build_framed_message", "wash_payload",
                  "wash_payload_raised", "get_washer_manifold",
                  "get_syringe_box_info", "encode_column_mask",
                  "encode_well_mask", "encode_quadrant_mask_inverted",
                  "resolve_wash_defaults", "manifold_dispense",
                  "manifold_prime", "manifold_auto_clean",
                  "get_syringe_manifold"}
  /\ \A i \in 1..Len(calc.out) : calc.out[i] \in 0..255

(***************************************************************************)
(* Batch lifecycle properties.                                             *)
(***************************************************************************)
IsPrefix(a, b) == Len(a) <= Len(b) /\ a = SubSeq(b, 1, Len(a))

StepFrame(kind) ==
  IF kind = "manifold_wash" THEN MANIFOLD_WASH_COMMAND ELSE SHAKE_SOAK_COMMAND

StepKinds == {"manifold_wash", "shake"}

OwnerOpen == \E t \in Tasks : HasOwner(task[t].stack)

\* C1: once the outermost batch scope has exited, by normal completion or by
\* an exception, the batch-active flag is false; the flag is true only while
\* such a scope is open.
C1_FlagFalseAfterOutermostExit ==
  /\ (last.kind # "none" /\ last.owner) => (~last.flagAfter /\ ~in_batch)
  /\ in_batch => OwnerOpen

\* an outermost scope whose body raised has just exited and the flag is false
C1_Witness ==
  /\ last.kind = "batch" /\ last.owner /\ last.bodyExc = "body"
  /\ last.outcome = "body" /\ ~in_batch

C4_StepOutsideBatchIsWrapped ==
  (last.kind \in StepKinds /\ ~last.flagBefore /\ last.outcome = "ok") =>
    /\ last.frames = StartSeq \o <<StepFrame(last.kind)>> \o CleanupSeq
    /\ ~last.flagAfter

\* C5: a step command called while a batch is active sends no START_STEP and
\* no end-of-batch frame, only its own frame.
C5_StepInsideBatchSendsOwnFrame ==
  /\ (last.kind \in StepKinds /\ last.flagBefore) =>
       /\ IsPrefix(last.frames, <<StepFrame(last.kind)>>)
       /\ last.outcome = "ok" => last.frames = <<StepFrame(last.kind)>>
  /\ \A t \in Tasks :
       (task[t].call.kind \in StepKinds /\ task[t].call.flagBefore) =>
         IsPrefix(sent[t], <<StepFrame(task[t].call.kind)>>)

\* manifold_wash() returned inside an active batch having written one frame
C5_Witness ==
  /\ last.kind = "manifold_wash" /\ last.flagBefore /\ last.outcome = "ok"
  /\ last.frames = <<MANIFOLD_WASH_COMMAND>> /\ last.flagAfter

\* C6: entering batch() while a batch is active writes nothing; leaving that
\* inner scope writes nothing and does not change the flag, which stays true
\* while the outermost scope is open.
C6_NestedScopeIsPassThrough ==
  /\ (last.kind = "enter" /\ last.flagBefore) =>
       (last.frames = <<>> /\ last.flagAfter /\ last.outcome = "ok")
  /\ (last.kind = "batch" /\ ~last.owner) =>
       (last.frames = <<>> /\ last.flagAfter = last.flagBefore)
  /\ OwnerOpen => in_batch

\* a caller inside its own outermost scope has just left an inner scope:
\* nothing written, the flag still true
C6_Witness ==
  /\ last.kind = "batch" /\ ~last.owner /\ last.outcome = "ok"
  /\ last.frames = <<>> /\ last.flagBefore /\ in_batch /\ io = "open"
  /\ last.task \in Tasks /\ HasOwner(task[last.task].stack)

\* C7: the cleanup sends pump-off (0x12B), then home-motors (0xC8), then
\* end-of-batch (0x8C); a command is written only after the one before it
\* was acknowledged.
C7_CleanupOrder ==
  LET Order == <<VACUUM_PUMP_CONTROL_COMMAND, HOME_VERIFY_MOTORS_COMMAND,
                 END_OF_BATCH_COMMAND>> IN
  /\ \A t \in Tasks :
       task[t].role = "cleanup" =>
         LET fr == After(sent[t], task[t].mid) IN
         /\ IsPrefix(fr, Order)
         /\ Len(fr) = IF task[t].pc = "wait" THEN task[t].idx
                      ELSE task[t].idx - 1
  /\ (last.kind # "none" /\ last.cleanup = "ok") => last.exitFrames = Order

\* end-of-batch is in flight after pump-off and home-motors
C7_Witness ==
  \E t \in Tasks :
    /\ task[t].role = "cleanup" /\ task[t].pc = "wait" /\ task[t].idx = 3
    /\ After(sent[t], task[t].mid) =
         <<VACUUM_PUMP_CONTROL_COMMAND, HOME_VERIFY_MOTORS_COMMAND,
           END_OF_BATCH_COMMAND>>

(***************************************************************************)
(* Transport session properties.                                           *)
(***************************************************************************)
Waiting == {t \in Tasks : task[t].pc = "wait"}

C9_LockReleasedOnTimeout ==
  /\ \A t \in Tasks : lock = t => task[t].pc = "wait"
  /\ (last.kind # "none" /\ "timeout" \in {last.outcome, last.cleanup}) =>
       lock # last.task

\* after a command of this caller timed out, its next command holds the lock
\* and is in flight
C9_Witness ==
  \E t \in Tasks :
    /\ task[t].exc = "timeout" /\ task[t].role = "cleanup"
    /\ task[t].pc = "wait" /\ lock = t

\* the caller sees the TimeoutError of the command that was in flight
SawTimeout(t) ==
  \/ last.task = t /\ "timeout" \in {last.outcome, last.cleanup}
  \/ task[t].exc = "timeout"

\* C10: the wait for a response is bounded: the read loop never runs past the
\* command's timeout, a command whose timeout has elapsed without a byte ends
\* with the timeout error, and every command in flight ends.
C10_BoundedWait ==
  /\ [](\A t \in Tasks : task[t].polls <= TimeoutPolls)
  /\ [][\A t \in Tasks :
          (task[t].pc = "wait" /\ io = "open" /\ task[t].polls = TimeoutPolls
             /\ task'[t] # task[t]) => SawTimeout(t)']_vars
  /\ \A t \in Tasks : (task[t].pc = "wait") ~> (task[t].pc # "wait")

\* a command got no byte during its whole timeout and the caller has the
\* timeout error
C10_Witness ==
  /\ last.kind = "pause" /\ last.outcome = "timeout" /\ last.frames = <<PAUSE_COMMAND>>
  /\ io = "open"

(***************************************************************************)
(* Frame effects of commands and of the session life cycle.                *)
(***************************************************************************)
\* the step just taken raised the TimeoutError of caller t's command
TimedOutStep(t) ==
  /\ task[t].pc = "wait" /\ io = "open" /\ Expired(task[t])
  /\ task'[t] # task[t]

\* C11: a command that ends in a timeout leaves the session as it was: the
\* transport handle is still open and the batch-active flag is unchanged.
\* When the command was a cleanup command, the batch scope it ran for ends
\* with it: an auto-batched step leaves the flag as it was before the call,
\* and a caller-managed scope resets it as on every exit.
C11_TimeoutLeavesSessionState ==
  [][\A t \in Tasks :
       TimedOutStep(t) =>
         /\ io' = "open"
         /\ task[t].role # "cleanup" => in_batch' = in_batch
         /\ (task[t].role = "cleanup" /\ task[t].call.kind \in StepKinds) =>
              in_batch' = task[t].call.flagBefore
         /\ (task[t].role = "cleanup" /\ task[t].call.kind \notin StepKinds) =>
              ~in_batch']_vars

\* pause() inside an active batch has just timed out: handle open, flag
\* still true
C11_Witness ==
  /\ last.kind = "pause" /\ last.outcome = "timeout"
  /\ last.flagBefore /\ in_batch /\ io = "open"

\* the manifold_wash() arguments the claim names: cycles 0, buffer "Z",
\* dispense_flow_rate 0 or 10, aspirate_travel_rate 0 or 10
RejectedWashArgs(a) ==
  \/ a.cycles = 0
  \/ a.buffer = "Z"
  \/ a.dispense_flow_rate \in {0, 10}
  \/ a.aspirate_travel_rate \in {0, 10}

\* C12: manifold_wash() with a parameter that fails validation raises the
\* validation error having written no byte, not even a frame of the batch
\* start sequence, and no call with such a parameter ever has a frame
\* written.
C12_ValidationBeforeAnyByte ==
  /\ (last.kind = "manifold_wash" /\ RejectedWashArgs(last.args)) =>
       (last.outcome = "validation" /\ last.frames = <<>>)
  /\ (last.kind \in StepKinds /\ last.outcome = "validation") =>
       last.frames = <<>>
  /\ \A t \in Tasks :
       (task[t].call.kind = "manifold_wash" /\ RejectedWashArgs(task[t].call.args))
         => sent[t] = <<>>

\* manifold_wash(cycles=0) called on an open session with no batch active
\* has raised the validation error and nothing was written
C12_Witness ==
  /\ last.kind = "manifold_wash" /\ last.args.cycles = 0
  /\ last.outcome = "validation" /\ last.frames = <<>>
  /\ io = "open" /\ ~last.flagBefore /\ ~in_batch

\* C13: when a line-configuration step of setup() fails, the transport is
\* closed, the session holds no transport handle, and a communication error
\* wrapping the original exception is raised; no command frame is written.
C13_ConfigFailureClosesTransport ==
  (last.kind = "setup" /\ last.cause # "none") =>
    /\ io = "none"
    /\ last.tops # <<>> /\ last.tops[Len(last.tops)] = "stop"
    /\ last.outcome = "communication"
    /\ last.frames = <<>>

\* set_flowctrl has failed after baud rate and line properties were set
C13_Witness ==
  /\ last.kind = "setup" /\ last.cause = "set_flowctrl"
  /\ last.tops = <<"setup", "set_baudrate", "set_line_property",
                   "set_flowctrl", "stop">>
  /\ last.outcome = "communication" /\ io = "none"

\* the caller has the error of a command refused for want of a transport
SawClosed(t) ==
  \/ last.task = t /\ "closed" \in {last.outcome, last.cleanup}
  \/ task[t].exc = "closed"

\* C14: no frame is written while the session is closed: every write happens
\* with the transport handle open, and a command that finds the session
\* closed (before setup() or after stop()) ends with an error and writes
\* nothing.
C14_NoWriteWhileClosed ==
  [][\A t \in Tasks :
       /\ Len(sent'[t]) > Len(sent[t]) => io = "open"
       /\ (task[t].pc = "send" /\ io = "none" /\ task'[t] # task[t]) =>
            (Len(sent'[t]) <= Len(sent[t]) /\ SawClosed(t)')]_vars

\* pause() on a closed session has raised, nothing written
C14_Witness ==
  /\ last.kind = "pause" /\ last.outcome = "closed" /\ last.frames = <<>>
  /\ io = "none" /\ lock = 0

\* C15: stop() on a session that is already closed performs no operation on
\* the transport, raises nothing and leaves the session closed.
C15_StopIdempotent ==
  (last.kind = "stop" /\ last.ioBefore = "none") =>
    (last.tops = <<>> /\ last.outcome = "ok" /\ io = "none")

\* stop() has returned on a closed session
C15_Witness ==
  /\ last.kind = "stop" /\ last.ioBefore = "none" /\ last.tops = <<>>
  /\ last.outcome = "ok" /\ io = "none"

BypassKinds == {"pause", "get_washer_manifold"}

BypassFrame(kind) ==
  IF kind = "pause" THEN PAUSE_COMMAND ELSE GET_WASHER_MANIFOLD_COMMAND

\* C16: an action command or a query writes only its own frame: no frame of
\* the start sequence before it and none of the cleanup sequence after it,
\* whether or not a batch is active, and it returns having written exactly
\* that frame.
C16_ActionsAndQueriesBypassBatching ==
  /\ last.kind \in BypassKinds =>
       /\ IsPrefix(last.frames, <<BypassFrame(last.kind)>>)
       /\ last.outcome = "ok" => last.frames = <<BypassFrame(last.kind)>>
       /\ ~last.owner
  /\ \A t \in Tasks :
       task[t].call.kind \in BypassKinds =>
         /\ IsPrefix(sent[t], <<BypassFrame(task[t].call.kind)>>)
         /\ task[t].role \notin {"start", "cleanup"}

\* pause() called with no batch active has returned having written only the
\* pause frame; no batch is active afterwards
C16_Witness ==
  /\ last.kind = "pause" /\ ~last.flagBefore /\ last.outcome = "ok"
  /\ last.frames = <<PAUSE_COMMAND>> /\ ~in_batch

\* the calls that are no batch scope and no step
NonBatchKinds == {"setup", "stop", "pause", "get_washer_manifold"}

\* C17: a step changes the batch-active flag only when the acting caller's
\* outermost batch scope is entered (flag becomes true) or left (flag becomes
\* false). No step of setup(), stop(), an action command or a query changes
\* it, nor does entering or leaving a nested scope, nor a step command that
\* fails validation.
C17_FlagChangesOnlyAtOutermostScope ==
  [][/\ in_batch' # in_batch =>
          \E t \in Tasks :
            /\ HasOwner(task'[t].stack) # HasOwner(task[t].stack)
            /\ in_batch' = HasOwner(task'[t].stack)
            /\ task[t].call.kind \notin NonBatchKinds
            /\ task'[t].call.kind \notin NonBatchKinds
     /\ last'.kind \in NonBatchKinds => in_batch' = in_batch
     /\ (last'.kind \in {"enter", "batch"} /\ ~last'.owner) =>
          in_batch' = in_batch
     /\ (last'.kind \in StepKinds /\ last'.outcome = "validation") =>
          in_batch' = in_batch]_vars

\* stop() has just closed the session inside an open caller-managed batch
\* scope and the flag is still true
C17_Witness ==
  /\ last.kind = "stop" /\ last.ioBefore = "open" /\ io = "none"
  /\ last.flagBefore /\ in_batch /\ OwnerOpen

(***************************************************************************)
(* Frame building (protocol.py).  Bytes are integers 0..255, a frame is a  *)
(* sequence of bytes; positions below are 1-based, the protocol's are      *)
(* 0-based.                                                                *)
(***************************************************************************)
MaxDataLen == 2
LongDataLen == 257

\* byte values the enumerated payloads are made of
DataBytes == {0, 1, 255}

RECURSIVE SumRange(_, _, _)
\* s[lo] + ... + s[hi], by halves
SumRange(s, lo, hi) ==
  IF lo > hi THEN 0
  ELSE IF lo = hi THEN s[lo]
  ELSE LET mid == (lo + hi) \div 2
       IN SumRange(s, lo, mid) + SumRange(s, mid + 1, hi)

\* sum(bytes)
SumBytes(s) == SumRange(s, 1, Len(s))

\* Writer.u8
U8(v) == <<v>>

\* Writer.u16: little-endian unsigned short
U16(v) == <<v % 256, (v \div 256) % 256>>

\* the ones' complement of the sum
ChecksumOnesComplement(checksum_sum) == (65535 - checksum_sum) % 65536

\* line 48: checksum = (0xFFFF - checksum_sum + 1) & 0xFFFF
Checksum(checksum_sum) == (65535 - checksum_sum + 1) % 65536

\* lines 35-44: header bytes 0-8
HeaderPrefix(command, data) ==
  U8(1) \o U8(2) \o U16(command) \o U8(1) \o U16(0) \o U16(Len(data))

\* build_framed_message(command, data)
build_framed_message(command, data) ==
  LET header_prefix == HeaderPrefix(command, data)
      checksum_sum == SumBytes(header_prefix) + SumBytes(data)
  IN header_prefix \o U16(Checksum(checksum_sum)) \o data

\* command codes framed: the smallest and the largest 16-bit code, and codes
\* of the session's commands on both sides of 255
FrameCommands ==
  {0, PAUSE_COMMAND, MANIFOLD_WASH_COMMAND, GET_WASHER_MANIFOLD_COMMAND,
   VACUUM_PUMP_CONTROL_COMMAND, 65535}

\* payloads framed: every byte string over DataBytes up to MaxDataLen, and
\* constant-filled ones long enough for the byte sum to pass 2^16
FramePayloads ==
  UNION {[1..n -> DataBytes] : n \in 0..MaxDataLen}
  \cup {[i \in 1..n |-> b] : n \in {LongDataLen, 2 * LongDataLen},
                              b \in DataBytes}

(***************************************************************************)
(* The manifold-wash payload (steps/_manifold.py).                         *)
(***************************************************************************)
\* Writer.i8: a signed byte in two's complement
I8(v) == <<(v + 256) % 256>>

\* padding left as it was found
PadUninitialised(n) == [i \in 1..n |-> 255]

\* Writer.raw_bytes(b"\x00" * n)
Pad(n) == [i \in 1..n |-> 0]

\* ord(buffer.upper()) for the buffer letters
Ord(buffer) ==
  CASE buffer = "A" -> 65 [] buffer = "B" -> 66
    [] buffer = "C" -> 67 [] buffer = "D" -> 68

\* INTENSITY_TO_BYTE.get(shake_intensity, 0x03)
INTENSITY_TO_BYTE(intensity) ==
  CASE intensity = "Variable" -> 1 [] intensity = "Slow" -> 2
    [] intensity = "Medium" -> 3 [] intensity = "Fast" -> 4
    [] OTHER -> 3

\* PLATE_TYPE_DEFAULTS (helpers.py 507-543)
PLATE_TYPE_DEFAULTS(plate_type) ==
  CASE plate_type = PLATE_1536_WELL ->
         [dispense_z |-> 94, aspirate_z |-> 42, rows |-> 48, cols |-> 32]
    [] plate_type = PLATE_384_WELL ->
         [dispense_z |-> 120, aspirate_z |-> 22, rows |-> 24, cols |-> 16]
    [] plate_type = PLATE_384_PCR ->
         [dispense_z |-> 83, aspirate_z |-> 2, rows |-> 24, cols |-> 16]
    [] plate_type = PLATE_96_WELL ->
         [dispense_z |-> 121, aspirate_z |-> 29, rows |-> 12, cols |-> 8]
    [] plate_type = PLATE_1536_FLANGE ->
         [dispense_z |-> 93, aspirate_z |-> 13, rows |-> 48, cols |-> 32]

\* get_plate_type_wash_defaults of the Geometry Resolver (helpers.py 546-561):
\* 300 uL when rows * cols is 96.  No step method imports it.
helpers_get_plate_type_wash_defaults(plate_type) ==
  LET pt == PLATE_TYPE_DEFAULTS(plate_type)
      well_count == pt.rows * pt.cols
  IN [dispense_volume |-> IF well_count = 96 THEN 300 ELSE 100,
      dispense_z |-> pt.dispense_z, aspirate_z |-> pt.aspirate_z]

\* get_plate_type_wash_defaults of the manifold steps (_manifold.py 48-54),
\* the one _resolve_wash_defaults calls: 300 uL when pt["cols"] is 12.
get_plate_type_wash_defaults(plate_type) ==
  LET pt == PLATE_TYPE_DEFAULTS(plate_type)
  IN [dispense_volume |-> IF pt.cols = 12 THEN 300 ELSE 100,
      dispense_z |-> pt.dispense_z, aspirate_z |-> pt.aspirate_z]

\* _resolve_wash_defaults lines 246-257
resolve_wash_defaults(a) ==
  LET pt_defaults == get_plate_type_wash_defaults(a.plate_type) IN
  [a EXCEPT
    !.dispense_volume = IF @ = None THEN pt_defaults.dispense_volume ELSE @,
    !.dispense_z = IF @ = None THEN pt_defaults.dispense_z ELSE @,
    !.aspirate_z = IF @ = None THEN pt_defaults.aspirate_z ELSE @,
    !.secondary_z = IF @ = None THEN pt_defaults.aspirate_z ELSE @,
    !.final_secondary_z = IF @ = None THEN pt_defaults.aspirate_z ELSE @]

\* _validate_manifold_xy lines 86-91
ManifoldXYValid(x, y) == -60 <= x /\ x <= 60 /\ -40 <= y /\ y <= 40

\* validate_flow_rate (helpers.py 40-52)
FlowRateValid(r) == MIN_FLOW_RATE <= r /\ r <= MAX_FLOW_RATE

\* validate_delay_ms (helpers.py 122-125)
DelayMsValid(d) == 0 <= d /\ d <= 65535

\* a volume that is 0 (disabled) or 25-3000 uL
OptionalVolumeValid(v) == v = 0 \/ (25 <= v /\ v <= 3000)

\* _validate_wash_params lines 402-456 raises nothing: the defaults are
\* resolved, then the core, final/extra, secondary and optional checks pass
WashAccepted(args) ==
  LET a == resolve_wash_defaults(args) IN
  /\ WashParamsValid(a)
  /\ a.dispense_volume > 0
  /\ ManifoldXYValid(a.dispense_x, a.dispense_y)
  /\ ManifoldXYValid(a.aspirate_x, a.aspirate_y)
  /\ a.wash_format \in {"Plate", "Sector"}
  /\ 0 <= a.sector_mask /\ a.sector_mask <= 65535
  /\ FlowRateValid(a.pre_dispense_flow_rate)
  /\ DelayMsValid(a.aspirate_delay_ms)
  /\ ManifoldXYValid(a.final_aspirate_x, a.final_aspirate_y)
  /\ DelayMsValid(a.final_aspirate_delay_ms)
  /\ OptionalVolumeValid(a.pre_dispense_volume)
  /\ 0 <= a.vacuum_delay_volume /\ a.vacuum_delay_volume <= 3000
  /\ 0 <= a.soak_duration /\ a.soak_duration <= 3599
  /\ 0 <= a.shake_duration /\ a.shake_duration <= 3599
  /\ a.shake_intensity \in {"Slow", "Medium", "Fast", "Variable"}
  /\ a.secondary_aspirate => ManifoldXYValid(a.secondary_x, a.secondary_y)
  /\ a.final_secondary_aspirate =>
       ManifoldXYValid(a.final_secondary_x, a.final_secondary_y)
  /\ a.bottom_wash =>
       /\ 25 <= a.bottom_wash_volume /\ a.bottom_wash_volume <= 3000
       /\ FlowRateValid(a.bottom_wash_flow_rate)
  /\ a.pre_dispense_between_cycles_volume # 0 =>
       /\ OptionalVolumeValid(a.pre_dispense_between_cycles_volume)
       /\ FlowRateValid(a.pre_dispense_between_cycles_flow_rate)

\* _build_wash_composite_command lines 1083-1192
build_wash_composite_command(args) ==
  LET a == resolve_wash_defaults(args)
      Flag(b) == IF b THEN 1 ELSE 0
      buffer_char == Ord(a.buffer)
      disp_vol == a.dispense_volume
      final_asp_z ==
        IF a.final_aspirate_z # None THEN a.final_aspirate_z ELSE a.aspirate_z
      pre_disp == IF a.pre_dispense_volume > 0 THEN a.pre_dispense_volume ELSE 0
      vac_delay == IF a.vacuum_delay_volume > 0 THEN a.vacuum_delay_volume ELSE 0
      intensity_byte ==
        IF a.shake_duration > 0 THEN INTENSITY_TO_BYTE(a.shake_intensity) ELSE 0
      sec_x == IF a.secondary_aspirate THEN a.secondary_x ELSE 0
      sec_y == IF a.secondary_aspirate THEN a.secondary_y ELSE 0
      final_sec_x == IF a.final_secondary_aspirate THEN a.final_secondary_x ELSE 0
      final_sec_y == IF a.final_secondary_aspirate THEN a.final_secondary_y ELSE 0
      final_sec_z ==
        IF a.final_secondary_aspirate THEN a.final_secondary_z ELSE final_asp_z
      bw_vol == IF a.bottom_wash THEN a.bottom_wash_volume ELSE disp_vol
      bw_flow ==
        IF a.bottom_wash THEN a.bottom_wash_flow_rate ELSE a.dispense_flow_rate
      midcyc_vol ==
        IF a.pre_dispense_between_cycles_volume > 0
          THEN a.pre_dispense_between_cycles_volume ELSE pre_disp
      midcyc_flow ==
        IF a.pre_dispense_between_cycles_volume > 0
          THEN a.pre_dispense_between_cycles_flow_rate
          ELSE a.pre_dispense_flow_rate
      \* header [0-6]
      header ==
        U8(a.plate_type) \o U8(Flag(a.bottom_wash)) \o U8(Flag(a.final_aspirate))
        \o U8(IF a.wash_format = "Plate" THEN 0 ELSE 1)
        \o U16(a.sector_mask) \o U8(a.cycles)
      \* dispense section 1 [7-28]
      dispense1 ==
        U8(buffer_char) \o U16(bw_vol) \o U8(bw_flow)
        \o I8(a.dispense_x) \o I8(a.dispense_y) \o U16(a.dispense_z)
        \o U16(pre_disp) \o U8(a.pre_dispense_flow_rate) \o U16(vac_delay)
        \o Pad(7) \o U16(a.final_aspirate_delay_ms)
      \* final aspirate section [29-48]
      final_aspirate ==
        U8(a.aspirate_travel_rate) \o U16(0) \o U16(final_asp_z)
        \o U8(Flag(a.final_secondary_aspirate))
        \o I8(a.final_aspirate_x) \o I8(a.final_aspirate_y)
        \o U16(final_sec_z) \o U8(0) \o I8(final_sec_x) \o I8(final_sec_y)
        \o Pad(5) \o U8(0) \o U8(a.aspirate_delay_ms % 256)
      \* primary aspirate section [49-67]
      primary_aspirate ==
        U8((a.aspirate_delay_ms \div 256) % 256) \o U8(a.aspirate_travel_rate)
        \o I8(a.aspirate_x) \o I8(a.aspirate_y) \o U16(a.aspirate_z)
        \o U8(Flag(a.secondary_aspirate)) \o I8(sec_x) \o I8(sec_y)
        \o U16(a.secondary_z) \o Pad(8)
      \* dispense section 2 [68-86]
      dispense2 ==
        U8(buffer_char) \o U16(disp_vol) \o U8(a.dispense_flow_rate)
        \o I8(a.dispense_x) \o I8(a.dispense_y) \o U16(a.dispense_z)
        \o U16(midcyc_vol) \o U8(midcyc_flow) \o U16(vac_delay) \o Pad(6)
      \* shake/soak section [87-101]
      shake_soak ==
        U8(Flag(a.move_home_first)) \o U16(a.shake_duration)
        \o U8(IF a.shake_duration > 0 THEN intensity_byte ELSE 3) \o U8(0)
        \o U16(a.soak_duration) \o Pad(4) \o Pad(4)
  IN header \o dispense1 \o final_aspirate \o primary_aspirate \o dispense2
     \o shake_soak

\* the values _build_wash_composite_command hands to Writer.u16 that no
\* check of _validate_wash_params bounds from above: they fit an unsigned
\* short
WriterFits(args) ==
  LET a == resolve_wash_defaults(args)
      Fits(v) == 0 <= v /\ v <= 65535 IN
  /\ Fits(a.dispense_volume) /\ Fits(a.dispense_z) /\ Fits(a.aspirate_z)
  /\ Fits(a.secondary_z) /\ Fits(a.final_secondary_z)
  /\ a.final_aspirate_z # None => Fits(a.final_aspirate_z)

\* wash arguments at the low end of every range
WashLow(plate_type) ==
  [WashDefaults(plate_type) EXCEPT
    !.cycles = MIN_CYCLES, !.dispense_volume = 1, !.dispense_flow_rate = 1,
    !.dispense_x = -60, !.dispense_y = -40, !.dispense_z = 0,
    !.aspirate_travel_rate = 1, !.aspirate_z = 0,
    !.pre_dispense_flow_rate = 1, !.aspirate_x = -60, !.aspirate_y = -40,
    !.final_aspirate_z = 0, !.final_aspirate_x = -60,
    !.final_aspirate_y = -40, !.pre_dispense_volume = 25,
    !.shake_intensity = "Variable", !.secondary_z = 0,
    !.secondary_x = -60, !.secondary_y = -40, !.final_secondary_z = 0,
    !.final_secondary_x = -60, !.final_secondary_y = -40,
    !.bottom_wash_volume = 25, !.bottom_wash_flow_rate = 1,
    !.pre_dispense_between_cycles_volume = 25,
    !.pre_dispense_between_cycles_flow_rate = 1, !.sector_mask = 0]

\* wash arguments at the high end of every range
WashHigh(plate_type) ==
  [WashDefaults(plate_type) EXCEPT
    !.cycles = MAX_CYCLES, !.buffer = "D", !.dispense_volume = 65535,
    !.dispense_flow_rate = 9, !.dispense_x = 60, !.dispense_y = 40,
    !.dispense_z = 65535, !.aspirate_travel_rate = 9, !.aspirate_z = 65535,
    !.pre_dispense_flow_rate = 9, !.aspirate_delay_ms = 65535,
    !.aspirate_x = 60, !.aspirate_y = 40, !.final_aspirate_z = 65535,
    !.final_aspirate_x = 60, !.final_aspirate_y = 40,
    !.final_aspirate_delay_ms = 65535, !.pre_dispense_volume = 3000,
    !.vacuum_delay_volume = 3000, !.soak_duration = 3599,
    !.shake_duration = 3599, !.shake_intensity = "Fast",
    !.secondary_z = 65535, !.secondary_x = 60, !.secondary_y = 40,
    !.final_secondary_z = 65535, !.final_secondary_x = 60,
    !.final_secondary_y = 40, !.bottom_wash_volume = 3000,
    !.bottom_wash_flow_rate = 9,
    !.pre_dispense_between_cycles_volume = 3000,
    !.pre_dispense_between_cycles_flow_rate = 9, !.wash_format = "Sector",
    !.sector_mask = 65535]

\* wash arguments tried: for every plate type the defaults, the low and the
\* high end of every range and a dispense height no unsigned short holds,
\* each with every combination of the five switches
WashPayloadInputs ==
  {[b EXCEPT !.bottom_wash = s[1], !.final_aspirate = s[2],
             !.secondary_aspirate = s[3], !.final_secondary_aspirate = s[4],
             !.move_home_first = s[5]] :
     b \in UNION {{WashDefaults(p), WashLow(p), WashHigh(p),
                   [WashDefaults(p) EXCEPT !.dispense_z = 65536 + 121]} :
                  p \in PlateTypes},
     s \in [1..5 -> BOOLEAN]}

(***************************************************************************)
(* Query responses (queries.py; the framed read is communication.py).      *)
(***************************************************************************)
ACK_BYTE == 6
NAK_BYTE == 21
GET_SYRINGE_BOX_INFO_COMMAND == 246
MaxPayloadLen == 4

\* EL406WasherManifold values (queries_tests.py 19-69)
WasherManifolds == {0, 1, 2, 3, 4, 255}

\* byte values the response payloads are made of: two manifold values and
\* one that is none
PayloadBytes == {0, 1, 100}

\* a response as the device writes it: first byte, 11-byte header with the
\* declared payload length in bytes 7-8, payload (mock_tests.py 134-165)
ResponseFrame(first, declared, payload) ==
  <<first>> \o <<1, 2, 0, 0, 1, 0, 0>> \o U16(declared) \o <<0, 0>> \o payload

\* whatever follows the first 12 bytes is taken as the payload
parse_response_lenient(raw) ==
  [ok |-> TRUE, payload |-> SubSeq(raw, 13, Len(raw))]

\* parse_response: a leading ACK, the 11-byte header, and as many payload
\* bytes as header bytes 7-8 declare; anything else is a protocol error
parse_response(raw) ==
  IF Len(raw) < 12 \/ raw[1] # ACK_BYTE
    THEN [ok |-> FALSE, payload |-> <<>>]
    ELSE LET declared == raw[9] + 256 * raw[10]
             payload == SubSeq(raw, 13, Len(raw))
         IN IF Len(payload) # declared
              THEN [ok |-> FALSE, payload |-> <<>>]
              ELSE [ok |-> TRUE, payload |-> payload]

\* response_data[2] if len(response_data) > 2 else response_data[0]
ByteTwoOrZero(response_data) ==
  IF Len(response_data) > 2 THEN response_data[3] ELSE response_data[1]

\* an unknown manifold byte answered with the "none" manifold
get_washer_manifold_default(raw) ==
  LET r == parse_response(raw) IN
  IF ~r.ok THEN [outcome |-> "protocol_error", out |-> <<>>]
  ELSE IF r.payload = <<>> THEN [outcome |-> "index_error", out |-> <<>>]
  ELSE LET manifold_byte == ByteTwoOrZero(r.payload) IN
       IF manifold_byte \in WasherManifolds
         THEN [outcome |-> "ok", out |-> <<manifold_byte>>]
         ELSE [outcome |-> "ok", out |-> <<255>>]

\* get_washer_manifold lines 51-65 on the response read
get_washer_manifold(raw) ==
  LET r == parse_response(raw) IN
  IF ~r.ok THEN [outcome |-> "protocol_error", out |-> <<>>]
  ELSE IF r.payload = <<>> THEN [outcome |-> "index_error", out |-> <<>>]
  ELSE LET manifold_byte == ByteTwoOrZero(r.payload) IN
       IF manifold_byte \in WasherManifolds
         THEN [outcome |-> "ok", out |-> <<manifold_byte>>]
         ELSE [outcome |-> "unknown_value", out |-> <<>>]

GET_SYRINGE_MANIFOLD_COMMAND == 187

\* EL406SyringeManifold values (setup_tests.py 142-184)
SyringeManifolds == 0..9

\* get_syringe_manifold lines 67-84 on the response read
get_syringe_manifold(raw) ==
  LET r == parse_response(raw) IN
  IF ~r.ok THEN [outcome |-> "protocol_error", out |-> <<>>]
  ELSE IF r.payload = <<>> THEN [outcome |-> "index_error", out |-> <<>>]
  ELSE LET manifold_byte == ByteTwoOrZero(r.payload) IN
       IF manifold_byte \in SyringeManifolds
         THEN [outcome |-> "ok", out |-> <<manifold_byte>>]
         ELSE [outcome |-> "unknown_value", out |-> <<>>]

\* get_syringe_box_info lines 108-125 on the response read
get_syringe_box_info(raw) ==
  LET r == parse_response(raw) IN
  IF ~r.ok THEN [outcome |-> "protocol_error", out |-> <<>>]
  ELSE IF r.payload = <<>> THEN [outcome |-> "index_error", out |-> <<>>]
  ELSE LET response_data == r.payload
           box_type == ByteTwoOrZero(response_data)
           box_size == IF Len(response_data) > 3 THEN response_data[4]
                       ELSE IF Len(response_data) > 1 THEN response_data[2]
                       ELSE 0
           installed == IF box_type # 0 THEN 1 ELSE 0
       IN [outcome |-> "ok", out |-> <<box_type, box_size, installed>>]

\* responses read: complete frames whose first byte is ACK, NAK or 0, whose
\* declared length is anything up to one more than the longest payload and
\* whose payload is any byte string up to MaxPayloadLen; and a lone first
\* byte with no header behind it
QueryResponses ==
  {ResponseFrame(first, declared, payload) :
     first \in {ACK_BYTE, NAK_BYTE, 0},
     declared \in 0..(MaxPayloadLen + 1),
     payload \in UNION {[1..n -> PayloadBytes] : n \in 0..MaxPayloadLen}}
  \cup {<<ACK_BYTE>>, <<NAK_BYTE>>}

CalcInit == Init

\* get_washer_manifold() reads one response and decodes it
QueryWasherManifold ==
  /\ calc = NoCalc
  /\ \E raw \in QueryResponses :
       LET r == get_washer_manifold(raw) IN
       calc' = [NoCalc EXCEPT !.fn = "get_washer_manifold",
                              !.command = GET_WASHER_MANIFOLD_COMMAND,
                              !.data = raw, !.outcome = r.outcome,
                              !.out = r.out]
  /\ UNCHANGED session

\* get_syringe_manifold() reads one response and decodes it
QuerySyringeManifold ==
  /\ calc = NoCalc
  /\ \E raw \in QueryResponses :
       LET r == get_syringe_manifold(raw) IN
       calc' = [NoCalc EXCEPT !.fn = "get_syringe_manifold",
                              !.command = GET_SYRINGE_MANIFOLD_COMMAND,
                              !.data = raw, !.outcome = r.outcome,
                              !.out = r.out]
  /\ UNCHANGED session

\* get_syringe_box_info() reads one response and decodes it
QuerySyringeBoxInfo ==
  /\ calc = NoCalc
  /\ \E raw \in QueryResponses :
       LET r == get_syringe_box_info(raw) IN
       calc' = [NoCalc EXCEPT !.fn = "get_syringe_box_info",
                              !.command = GET_SYRINGE_BOX_INFO_COMMAND,
                              !.data = raw, !.outcome = r.outcome,
                              !.out = r.out]
  /\ UNCHANGED session

\* manifold_wash() lines 756-879: accepted arguments are handed to
\* _build_wash_composite_command, which returns the payload; when a value
\* does not fit its field, the Writer (not in src/) either raises or
\* truncates
BuildWashPayload ==
  /\ calc = NoCalc
  /\ \E args \in WashPayloadInputs, raised \in BOOLEAN :
       /\ WashAccepted(args)
       /\ raised => ~WriterFits(args)
       /\ calc' = [NoCalc EXCEPT
                     !.fn = IF raised THEN "wash_payload_raised"
                            ELSE "wash_payload",
                     !.args = args,
                     !.outcome = IF raised THEN "raised" ELSE "ok",
                     !.out = IF raised THEN <<>>
                             ELSE build_wash_composite_command(args)]
  /\ UNCHANGED session

\* build_framed_message is applied to one command code and payload
BuildFramedMessage ==
  /\ calc = NoCalc
  /\ \E command \in FrameCommands, data \in FramePayloads :
       calc' = [NoCalc EXCEPT !.fn = "build_framed_message",
                              !.command = command, !.data = data,
                              !.outcome = "ok",
                              !.out = build_framed_message(command, data)]
  /\ UNCHANGED session

(***************************************************************************)
(* Selection masks (protocol.py, helpers.py).  A list argument is a        *)
(* sequence; calc.is_none says that None was passed instead.               *)
(***************************************************************************)
MaxMaskListLen == 3

\* bit b of byte v
Bit(v, b) == (v \div (2 ^ b)) % 2

\* the bit is added in, set or not
AddBit(v, b) == v + 2 ^ b

\* v | (1 << b)
SetBit(v, b) == IF Bit(v, b) = 1 THEN v ELSE v + 2 ^ b

RECURSIVE MaskOf(_, _)
\* lines 76-80: for col in columns: mask[col // 8] |= 1 << (col % 8)
MaskOf(mask, columns) ==
  IF columns = <<>> THEN mask
  ELSE LET col == Head(columns)
           byte_index == col \div 8
           bit_index == col % 8
       IN MaskOf([mask EXCEPT ![byte_index + 1] = SetBit(@, bit_index)],
                 Tail(columns))

\* encode_column_mask (protocol.py 53-82)
encode_column_mask(is_none, columns) ==
  IF is_none THEN [outcome |-> "ok", out |-> [i \in 1..6 |-> 255]]
  ELSE IF \E k \in 1..Len(columns) : columns[k] < 0 \/ columns[k] > 47
    THEN [outcome |-> "validation", out |-> <<>>]
  ELSE [outcome |-> "ok", out |-> MaskOf([i \in 1..6 |-> 0], columns)]

\* encode_well_mask (helpers.py 278-308): the same steps on well indices
encode_well_mask(is_none, wells) == encode_column_mask(is_none, wells)

\* indices tried: both ends of the range, both sides of a byte boundary, and
\* one index below and one above the range
MaskIndices == {-1, 0, 7, 8, 47, 48}

\* index lists tried, repeated indices included
MaskLists == UNION {[1..n -> MaskIndices] : n \in 0..MaxMaskListLen}

\* encode_column_mask is applied to None or to one list
EncodeColumnMask ==
  /\ calc = NoCalc
  /\ \E is_none \in BOOLEAN, columns \in MaskLists :
       /\ is_none => columns = <<>>
       /\ LET r == encode_column_mask(is_none, columns) IN
          calc' = [NoCalc EXCEPT !.fn = "encode_column_mask",
                                 !.is_none = is_none, !.data = columns,
                                 !.outcome = r.outcome, !.out = r.out]
  /\ UNCHANGED session

\* encode_well_mask is applied to None or to one list
EncodeWellMask ==
  /\ calc = NoCalc
  /\ \E is_none \in BOOLEAN, wells \in MaskLists :
       /\ is_none => wells = <<>>
       /\ LET r == encode_well_mask(is_none, wells) IN
          calc' = [NoCalc EXCEPT !.fn = "encode_well_mask",
                                 !.is_none = is_none, !.data = wells,
                                 !.outcome = r.outcome, !.out = r.out]
  /\ UNCHANGED session

\* the bit is taken off, set or not
SubtractBit(v, b) == v - 2 ^ b

\* v & ~(1 << b)
ClearBit(v, b) == IF Bit(v, b) = 1 THEN v - 2 ^ b ELSE v

RECURSIVE QuadrantMaskOf(_, _, _)
\* helpers.py lines 369-372: each row is checked, then its bit cleared; the
\* first row out of range ends the loop with ValueError
QuadrantMaskOf(mask, rows, num_row_groups) ==
  IF rows = <<>> THEN [outcome |-> "ok", out |-> <<mask % 256>>]
  ELSE LET row == Head(rows) IN
       IF row < 1 \/ row > num_row_groups
         THEN [outcome |-> "validation", out |-> <<>>]
         ELSE QuadrantMaskOf(ClearBit(mask, row - 1), Tail(rows),
                             num_row_groups)

\* encode_quadrant_mask_inverted (helpers.py 333-374, and the same function
\* in steps/_peristaltic.py 40-70)
encode_quadrant_mask_inverted(is_none, rows, num_row_groups) ==
  IF is_none THEN [outcome |-> "ok", out |-> <<0>>]
  ELSE LET max_mask == (2 ^ num_row_groups) - 1
       IN QuadrantMaskOf(max_mask, rows, num_row_groups)

\* plate_type_max_rows (helpers.py 422-435): 1, 2 or 4 row groups
RowGroupCounts == {1, 2, 4}

\* row numbers tried: 1..4, and one below and one above
RowNumbers == 0..5

\* encode_quadrant_mask_inverted is applied to None or to one list of rows
EncodeQuadrantMaskInverted ==
  /\ calc = NoCalc
  /\ \E is_none \in BOOLEAN, num_row_groups \in RowGroupCounts,
        rows \in UNION {[1..k -> RowNumbers] : k \in 0..MaxMaskListLen} :
       /\ is_none => rows = <<>>
       /\ LET r == encode_quadrant_mask_inverted(is_none, rows, num_row_groups)
          IN calc' = [NoCalc EXCEPT !.fn = "encode_quadrant_mask_inverted",
                                    !.is_none = is_none, !.data = rows,
                                    !.n = num_row_groups,
                                    !.outcome = r.outcome, !.out = r.out]
  /\ UNCHANGED session

\* ---- default resolution of manifold_wash ----
\* Explicit dispense volumes a caller may pass, next to the omitted one.
DispenseVolumes == {None, 25, 150, 300}

\* manifold_wash up to _resolve_wash_defaults (_manifold.py 236-257, 842-850):
\* calc.args is what the caller passed, calc.n the resolved dispense volume,
\* calc.out the resolved dispense Z and aspirate Z.
ResolveWashDefaults ==
  /\ calc = NoCalc
  /\ \E plate_type \in PlateTypes, dispense_volume \in DispenseVolumes :
       LET args == [WashDefaults(plate_type) EXCEPT
                      !.dispense_volume = dispense_volume]
           a == resolve_wash_defaults(args)
       IN calc' = [NoCalc EXCEPT !.fn = "resolve_wash_defaults",
                                 !.args = args,
                                 !.n = a.dispense_volume,
                                 !.outcome = "ok",
                                 !.out = <<a.dispense_z, a.aspirate_z>>]
  /\ UNCHANGED session

\* ---- manifold_dispense validation ----
\* _validate_dispense_extras (_manifold.py 179-195) raises nothing
DispenseExtrasValid(pre_volume, pre_flow_rate, vacuum_delay_volume) ==
  /\ OptionalVolumeValid(pre_volume)
  /\ 3 <= pre_flow_rate /\ pre_flow_rate <= 11
  /\ 0 <= vacuum_delay_volume /\ vacuum_delay_volume <= 3000

\* no cell-wash check at all
CellWashUnchecked(flow_rate, vacuum_delay_volume) == FALSE

\* the cell-wash check of _validate_dispense_params (_manifold.py 223-227):
\* TRUE when it raises
CellWashRejected(flow_rate, vacuum_delay_volume) ==
  flow_rate <= 2 /\ vacuum_delay_volume <= 0

\* _validate_dispense_params (_manifold.py 197-234): the resolved offset_z,
\* or None when a ValueError is raised
validate_dispense_params(d) ==
  LET offset_z == IF d.offset_z = None
                    THEN get_plate_type_wash_defaults(d.plate_type).dispense_z
                    ELSE d.offset_z
  IN IF /\ 25 <= d.volume /\ d.volume <= 3000
        /\ d.buffer \in VALID_BUFFERS
        /\ 1 <= d.flow_rate /\ d.flow_rate <= 11
        /\ ~CellWashRejected(d.flow_rate, d.vacuum_delay_volume)
        /\ ManifoldXYValid(d.offset_x, d.offset_y)
        /\ 1 <= offset_z /\ offset_z <= 210
        /\ DispenseExtrasValid(d.pre_dispense_volume, d.pre_dispense_flow_rate,
                               d.vacuum_delay_volume)
       THEN offset_z
       ELSE None

\* argument values of manifold_dispense around each limit
DispenseVolumeInputs == {24, 25, 3000}
DispenseFlowRates == {0, 1, 2, 3, 11, 12}
VacuumDelayVolumes == {-1, 0, 1, 3000, 3001}
DispenseOffsetZ == {None, 0, 210}
DispensePlateTypes == {PLATE_96_WELL, PLATE_384_WELL}

\* manifold_dispense up to the end of validation (_manifold.py 546-592);
\* calc.data is <<volume, flow_rate, vacuum_delay_volume, offset_z>> as
\* passed, calc.out the resolved offset_z of an accepted call.
ManifoldDispenseValidate ==
  /\ calc = NoCalc
  /\ \E plate_type \in DispensePlateTypes, volume \in DispenseVolumeInputs,
        flow_rate \in DispenseFlowRates,
        vacuum_delay_volume \in VacuumDelayVolumes,
        offset_z \in DispenseOffsetZ :
       LET d == [plate_type |-> plate_type, volume |-> volume, buffer |-> "A",
                 flow_rate |-> flow_rate, offset_x |-> 0, offset_y |-> 0,
                 offset_z |-> offset_z, pre_dispense_volume |-> 0,
                 pre_dispense_flow_rate |-> 9,
                 vacuum_delay_volume |-> vacuum_delay_volume]
           z == validate_dispense_params(d)
       IN calc' = [NoCalc EXCEPT
                     !.fn = "manifold_dispense",
                     !.command = plate_type,
                     !.data = <<volume, flow_rate, vacuum_delay_volume,
                                offset_z>>,
                     !.outcome = IF z = None THEN "validation" ELSE "ok",
                     !.out = IF z = None THEN <<>> ELSE <<z>>]
  /\ UNCHANGED session

\* ---- durations sent in minutes ----
\* every duration passes
MultipleOf60Unchecked(duration) == TRUE

\* the `duration % 60 != 0` checks (_manifold.py 931-935, 993-997) pass
MultipleOf60(duration) == duration % 60 = 0

\* round(duration / 60) of Python: to the nearest integer, ties to even
RoundDiv60(duration) ==
  LET q == duration \div 60
      r == duration % 60
  IN IF r < 30 THEN q
     ELSE IF r > 30 THEN q + 1
     ELSE IF q % 2 = 0 THEN q ELSE q + 1

\* manifold_prime (_manifold.py 918-940) with the other arguments valid:
\* submerge_duration_min, or None when a ValueError is raised
manifold_prime_minutes(submerge_duration) ==
  IF submerge_duration # 0 /\
       ~(60 <= submerge_duration /\ submerge_duration <= 86340)
    THEN None
  ELSE IF ~MultipleOf60(submerge_duration) THEN None
  ELSE RoundDiv60(submerge_duration)

\* manifold_auto_clean (_manifold.py 989-1000): duration_min, or None when a
\* ValueError is raised
manifold_auto_clean_minutes(duration) ==
  IF ~(60 <= duration /\ duration <= 14340) THEN None
  ELSE IF ~MultipleOf60(duration) THEN None
  ELSE RoundDiv60(duration)

\* durations in seconds around the limits and between whole minutes
Durations ==
  {0, 1, 30, 59, 60, 61, 89, 90, 91, 119, 120, 150, 14310, 14340, 14400,
   86310, 86340, 86400}

\* calc.data is <<submerge_duration>>, calc.n the minutes handed to
\* _build_manifold_prime_command
ManifoldPrimeValidate ==
  /\ calc = NoCalc
  /\ \E submerge_duration \in Durations :
       LET m == manifold_prime_minutes(submerge_duration)
       IN calc' = [NoCalc EXCEPT
                     !.fn = "manifold_prime",
                     !.data = <<submerge_duration>>,
                     !.outcome = IF m = None THEN "validation" ELSE "ok",
                     !.n = IF m = None THEN 0 ELSE m]
  /\ UNCHANGED session

\* calc.data is <<duration>>, calc.n the minutes handed to
\* _build_auto_clean_command
ManifoldAutoCleanValidate ==
  /\ calc = NoCalc
  /\ \E duration \in Durations :
       LET m == manifold_auto_clean_minutes(duration)
       IN calc' = [NoCalc EXCEPT
                     !.fn = "manifold_auto_clean",
                     !.data = <<duration>>,
                     !.outcome = IF m = None THEN "validation" ELSE "ok",
                     !.n = IF m = None THEN 0 ELSE m]
  /\ UNCHANGED session

CalcNext ==
  \/ BuildFramedMessage
  \/ BuildWashPayload
  \/ QueryWasherManifold
  \/ QuerySyringeBoxInfo
  \/ QuerySyringeManifold
  \/ EncodeColumnMask
  \/ EncodeWellMask
  \/ EncodeQuadrantMaskInverted
  \/ ResolveWashDefaults
  \/ ManifoldDispenseValidate
  \/ ManifoldPrimeValidate
  \/ ManifoldAutoCleanValidate

CalcSpec == CalcInit /\ [][CalcNext]_vars

\* the checksum field of a frame: bytes 9-10, little-endian
ChecksumField(frame) == frame[10] + 256 * frame[11]

\* header bytes 0-8 and the data bytes of a frame
CheckedBytes(frame) == SubSeq(frame, 1, 9) \o SubSeq(frame, 12, Len(frame))

\* C18: for every command code and payload, the checksum field of the built
\* frame is the two's complement mod 2^16 of the sum of header bytes 0-8 plus
\* all data bytes: that sum plus the 16-bit checksum value is 0 mod 2^16.
\* The frame is the 9 header bytes, the 2 checksum bytes and the payload.
C18_ChecksumIsTwosComplement ==
  calc.fn = "build_framed_message" =>
    LET frame == calc.out
        total == SumBytes(CheckedBytes(frame)) IN
    /\ Len(frame) = 11 + Len(calc.data)
    /\ \A i \in 1..Len(frame) : frame[i] \in 0..255
    /\ SubSeq(frame, 12, Len(frame)) = calc.data
    /\ SubSeq(frame, 3, 4) = <<calc.command % 256, calc.command \div 256>>
    /\ frame[8] + 256 * frame[9] = Len(calc.data)
    /\ ChecksumField(frame) \in 0..65535
    /\ (total + ChecksumField(frame)) % 65536 = 0

\* a frame whose byte sum passes 2^16 and whose command code needs both
\* command bytes has been built, with a checksum other than zero
C18_Witness ==
  /\ calc.fn = "build_framed_message"
  /\ calc.command > 255
  /\ SumBytes(CheckedBytes(calc.out)) > 65536
  /\ ChecksumField(calc.out) # 0

\* 1-based positions of the padding and reserved bytes of the wash payload:
\* wire [20-26], [30-31], [39], [42-47], [60-67], [81-86], [91], [94-101]
WashZeroBytes ==
  (21..27) \cup (31..32) \cup {40} \cup (43..48) \cup (61..68) \cup (82..87)
  \cup {92} \cup (95..102)

\* C20: the manifold-wash payload is exactly 102 bytes for every plate format
\* and every accepted parameter combination, and every padding or reserved
\* byte in it is zero; whenever the arguments fit their fields the builder
\* returns such a payload.
C20_WashPayloadIs102Bytes ==
  /\ calc.fn = "wash_payload" =>
       /\ Len(calc.out) = 102
       /\ \A i \in 1..Len(calc.out) : calc.out[i] \in 0..255
       /\ \A i \in WashZeroBytes : calc.out[i] = 0
       /\ calc.out[1] = calc.args.plate_type
  /\ calc.fn = "wash_payload_raised" => ~WriterFits(calc.args)

\* a 102-byte payload was built for a 1536-well plate with bottom wash and
\* both secondary aspirates on, every argument at its upper limit
C20_Witness ==
  /\ calc.fn = "wash_payload" /\ Len(calc.out) = 102
  /\ calc.args.plate_type = PLATE_1536_FLANGE
  /\ calc.args.bottom_wash /\ calc.args.secondary_aspirate
  /\ calc.args.final_secondary_aspirate
  /\ calc.args.cycles = MAX_CYCLES /\ calc.args.dispense_volume = 65535

QueryKinds == {"get_washer_manifold", "get_syringe_box_info"}

\* the response read does not begin with ACK
NoLeadingAck(raw) == raw = <<>> \/ raw[1] # 6

\* the payload length the header declares is not the number of bytes that
\* follow the header (or the header itself is not all there)
LengthMismatch(raw) ==
  \/ Len(raw) < 12
  \/ raw[9] + 256 * raw[10] # Len(raw) - 12

\* C19: a response that does not begin with the ACK byte (0x06), or whose
\* declared payload length does not match the bytes available, ends the
\* query with a protocol error and is never decoded into a result; the
\* protocol error is raised for no other response.
C19_BadResponseIsProtocolError ==
  calc.fn \in QueryKinds =>
    /\ (NoLeadingAck(calc.data) \/ LengthMismatch(calc.data)) =>
         (calc.outcome = "protocol_error" /\ calc.out = <<>>)
    /\ calc.outcome = "protocol_error" =>
         (NoLeadingAck(calc.data) \/ LengthMismatch(calc.data))
    /\ calc.outcome = "ok" <=> calc.out # <<>>

\* get_washer_manifold() has read a response that begins with ACK and
\* carries a valid manifold byte, but declares one payload byte more than
\* follows: protocol error, nothing decoded
C19_Witness ==
  /\ calc.fn = "get_washer_manifold" /\ calc.outcome = "protocol_error"
  /\ calc.out = <<>> /\ Len(calc.data) = 15
  /\ calc.data[1] = 6 /\ calc.data[9] = 4 /\ calc.data[15] = 1

\* the elements of a list
Range(s) == {s[k] : k \in 1..Len(s)}

\* the indices a 6-byte mask selects
DecodeMask(mask) == {i \in 0..47 : Bit(mask[(i \div 8) + 1], i % 8) = 1}

\* C21: for every list of indices all within 0..47, the 6-byte column/well
\* mask has bit (i mod 8) of byte (i div 8) set exactly when i is in the
\* list, so decoding the mask recovers the same index set; the empty list
\* gives six 0x00 bytes and None gives six 0xFF bytes.
C21_MaskRoundTrip ==
  calc.fn \in {"encode_column_mask", "encode_well_mask"} =>
    /\ calc.is_none =>
         (calc.outcome = "ok" /\ calc.out = <<255, 255, 255, 255, 255, 255>>)
    /\ (~calc.is_none /\ Range(calc.data) \subseteq 0..47) =>
         /\ calc.outcome = "ok"
         /\ Len(calc.out) = 6
         /\ \A k \in 1..6 : calc.out[k] \in 0..255
         /\ \A i \in 0..47 :
              Bit(calc.out[(i \div 8) + 1], i % 8) = 1 <=> i \in Range(calc.data)
         /\ DecodeMask(calc.out) = Range(calc.data)
    /\ (~calc.is_none /\ calc.data = <<>>) => calc.out = <<0, 0, 0, 0, 0, 0>>

\* the column list [7, 47, 7], with a repeated index, was encoded: bit 7 of
\* byte 0 and bit 7 of byte 5
C21_Witness ==
  /\ calc.fn = "encode_column_mask" /\ ~calc.is_none
  /\ calc.data = <<7, 47, 7>> /\ calc.out = <<128, 0, 0, 0, 0, 128>>

\* C22: the inverted row/quadrant mask for a plate with n in {1, 2, 4} row
\* groups has, for each valid row r in 1..n, bit r-1 equal to 0 exactly when
\* r is selected, and every bit at position n or above equal to 0; None
\* encodes to 0x00 and selecting row 1 of 4 encodes to 0x0E.
C22_InvertedQuadrantMask ==
  calc.fn = "encode_quadrant_mask_inverted" =>
    /\ calc.is_none => (calc.outcome = "ok" /\ calc.out = <<0>>)
    /\ (~calc.is_none /\ Range(calc.data) \subseteq 1..calc.n) =>
         /\ calc.outcome = "ok"
         /\ Len(calc.out) = 1
         /\ \A r \in 1..calc.n :
              Bit(calc.out[1], r - 1) = 0 <=> r \in Range(calc.data)
         /\ \A b \in calc.n..7 : Bit(calc.out[1], b) = 0
    /\ (~calc.is_none /\ calc.data = <<1>> /\ calc.n = 4) => calc.out = <<14>>

\* rows [2, 2] of a 2-row-group plate were encoded, row 2 given twice: bit 1
\* is 0, bit 0 is 1, nothing above
C22_Witness ==
  /\ calc.fn = "encode_quadrant_mask_inverted" /\ ~calc.is_none
  /\ calc.n = 2 /\ calc.data = <<2, 2>> /\ calc.out = <<1>>

(***************************************************************************)
(* Plate-geometry defaults.                                                *)
(***************************************************************************)
\* wells of a plate format, from the rows and columns of PLATE_TYPE_DEFAULTS
WellCount(plate_type) ==
  PLATE_TYPE_DEFAULTS(plate_type).rows * PLATE_TYPE_DEFAULTS(plate_type).cols

\* C23: when the caller of manifold_wash omits the dispense volume, it
\* resolves to 300 uL if and only if the plate format has 96 wells, and to
\* 100 uL for every other plate format.
C23_OmittedVolumeDefault ==
  (calc.fn = "resolve_wash_defaults" /\ calc.args.dispense_volume = None) =>
    /\ calc.n \in {100, 300}
    /\ calc.n = 300 <=> WellCount(calc.args.plate_type) = 96

(***************************************************************************)
(* Conditionally required parameters.                                      *)
(***************************************************************************)
\* C24: a manifold dispense with flow rate 1 or 2 is rejected unless
\* vacuum_delay_volume is greater than 0.
C24_CellWashNeedsVacuumDelay ==
  (calc.fn = "manifold_dispense" /\ calc.data[2] \in {1, 2}) =>
    /\ calc.data[3] <= 0 => (calc.outcome = "validation" /\ calc.out = <<>>)
    /\ calc.outcome = "ok" => calc.data[3] > 0

\* Flow rate 2 with no vacuum delay and every other argument valid is
\* rejected.
C24_Witness ==
  /\ calc.fn = "manifold_dispense"
  /\ calc.data = <<25, 2, 0, None>>
  /\ calc.outcome = "validation"

\* C25: a submerge duration (manifold prime) or an auto-clean duration that
\* is not an exact multiple of 60 seconds is rejected, never rounded to a
\* minute count: an accepted duration is exactly the minutes sent times 60.
C25_NonMultipleOf60Rejected ==
  calc.fn \in {"manifold_prime", "manifold_auto_clean"} =>
    /\ calc.data[1] % 60 # 0 => calc.outcome = "validation"
    /\ calc.outcome = "ok" => calc.n * 60 = calc.data[1]

\* A submerge duration of 90 s, inside 60-86340 and halfway between one and
\* two minutes, is rejected.
C25_Witness ==
  /\ calc.fn = "manifold_prime"
  /\ calc.data = <<90>>
  /\ calc.outcome = "validation"

(***************************************************************************)
(* Manifold-type queries.                                                  *)
(***************************************************************************)
\* the values of the enum a manifold query converts its byte to
KnownManifolds(fn) ==
  IF fn = "get_washer_manifold" THEN WasherManifolds ELSE SyringeManifolds

\* C26: a manifold-type query whose well-formed response carries an enum
\* byte that is not a known manifold value raises the "unknown manifold
\* type" error and returns nothing; a result is returned only for a known
\* value and is that value, never a default.
C26_UnknownManifoldRaises ==
  calc.fn \in {"get_washer_manifold", "get_syringe_manifold"} =>
    LET r == parse_response(calc.data) IN
    (r.ok /\ r.payload # <<>>) =>
      LET manifold_byte == ByteTwoOrZero(r.payload) IN
      /\ manifold_byte \notin KnownManifolds(calc.fn) =>
            (calc.outcome = "unknown_value" /\ calc.out = <<>>)
      /\ calc.outcome = "ok" =>
            (calc.out = <<manifold_byte>> /\
             manifold_byte \in KnownManifolds(calc.fn))

\* The washer-manifold query reads an acknowledged response whose payload
\* has the unknown value 100 at index 2, and raises.
C26_Witness ==
  /\ calc.fn = "get_washer_manifold"
  /\ parse_response(calc.data).payload = <<0, 0, 100>>
  /\ calc.outcome = "unknown_value"
  /\ calc.out = <<>>

(***************************************************************************)
(* Step frames and the batch markers on the transport.                     *)
(***************************************************************************)
\* caller t writes the frame of a step command in this step: one sent from
\* inside the command's own batch scope ("step", manifold_wash) or one
\* passed straight to _send_step_command ("ustep", shake)
WritesStepFrame(t, roles) ==
  /\ task[t].pc = "send" /\ task'[t].pc = "wait"
  /\ task[t].role \in roles
  /\ Len(sent'[t]) = Len(sent[t]) + 1

\* The same for the step commands that open a batch scope of their own.
C27_WrappedStepFrameAfterStartStep ==
  [][\A t \in Tasks : WritesStepFrame(t, {"step"}) => marker = "start"]_vars

\* C27: for any interleaving of the callers sharing the session, every step
\* command frame written to the transport is preceded by a START_STEP frame
\* with no end-of-batch frame written between the two: the batch marker
\* written last before a step frame is START_STEP.
C27_StepFrameAfterStartStep ==
  [][\A t \in Tasks :
       WritesStepFrame(t, {"step", "ustep"}) => marker = "start"]_vars

(***************************************************************************)
(* Failures inside the cleanup sequence.                                   *)
(***************************************************************************)
\* an outermost batch scope has just exited and a command of its cleanup
\* sequence failed
CleanupFailed == last.kind # "none" /\ last.owner /\ last.cleanup \notin {"none", "ok"}

\* C28: if a command of the cleanup sequence itself fails while the
\* outermost batch scope is exiting, the batch-active flag is still reset to
\* false.
C28_FlagResetWhenCleanupFails ==
  CleanupFailed => (~last.flagAfter /\ ~in_batch)

\* The body of an outermost scope ended without an exception, a cleanup
\* command timed out, the timeout reached the caller and the flag is false.
C28_Witness ==
  /\ CleanupFailed
  /\ last.bodyExc = "none" /\ last.startOk
  /\ last.cleanup = "timeout" /\ last.outcome = "timeout"
  /\ last.flagBefore
  /\ ~in_batch

\* C29: each of the three cleanup commands (pump off, home XYZ motors,
\* end-of-batch marker) is attempted on every exit of the outermost batch
\* scope, even if an earlier cleanup command fails.
C29_AllCleanupCommandsAttempted ==
  (last.kind # "none" /\ last.owner) => last.attempts = Len(CleanupSeq)

(***************************************************************************)
(* setup() failing at the handshake.                                       *)
(***************************************************************************)
\* setup() has just raised because the test-communication or the init-state
\* command of _test_communication() was not acknowledged within its timeout
HandshakeNotAcknowledged ==
  /\ last.kind = "setup" /\ last.outcome = "timeout"
  /\ last.frames \in {<<TEST_COMM_COMMAND>>,
                       <<TEST_COMM_COMMAND, INIT_STATE_COMMAND>>}

\* C30: if setup() fails at the handshake step, the session is left Closed:
\* the transport is closed and the session holds no open transport handle.
C30_HandshakeFailureLeavesClosed ==
  HandshakeNotAcknowledged => io = "none"

====
